---------------------------- MODULE Spec2Model ----------------------------
(***************************************************************************)
(* Model of server/server.py: a Flask static file server that holds a      *)
(* BambuLab printer session for the lifetime of the HTTP process.          *)
(*                                                                         *)
(* Two specifications share the definitions below:                         *)
(*   Spec         one run of main(), the listener answering GET requests   *)
(*                while it runs                                            *)
(*   SpecSession  a caller driving connect_printer() / disconnect_printer()*)
(*                of one BambuPGCode object in any order                   *)
(*                                                                         *)
(* The vendor SDK (bambulabs_api) and the listener (app.run) are black     *)
(* boxes: every call to them either returns or raises, chosen by the       *)
(* environment.  Exceptions carry their class, because the handlers of     *)
(* server.py are `except Exception` and `finally`, which treat an          *)
(* Exception and a bare BaseException (SystemExit, KeyboardInterrupt)      *)
(* differently.                                                            *)
(***************************************************************************)
EXTENDS Integers, Sequences, FiniteSets, TLC

VARIABLES
    pc,           \* position of main(): start, constructed, connected, serving,
                  \* finally, returned, raised; "session" in SpecSession
    env,          \* os.environ as read by os.getenv
    printer,      \* BambuPGCode.printer: NoHandle (None) or a handle id
    trace,        \* observable events in order: SDK calls, log records, listener
    history,      \* calls of connect_printer / disconnect_printer with their result
    listener,     \* app.run: "never", "running", "stopped"
    pending,      \* how app.run ended: "none", "return" or the exception class
    clientFiles,  \* regular files under CLIENT_DIR (paths relative to it)
    flaskFiles,   \* regular files under Flask's own static folder
    request,      \* the last request handled
    response      \* the response to it

vars == <<pc, env, printer, trace, history, listener, pending,
          clientFiles, flaskFiles, request, response>>

-----------------------------------------------------------------------------
(* Bounds *)

\* calls a caller makes on one session in SpecSession
MaxCalls == 3
\* segments of a request path
MaxDepth == 2

-----------------------------------------------------------------------------
(* Environment *)

RequiredVars == {"PRINTER_IP", "PRINTER_ACCESS_CODE", "PRINTER_SERIAL"}
EnvVars == RequiredVars \cup {"FLASK_PORT"}

\* os.getenv(name): None when unset, else the string
EnvValues == {"<unset>", "", "8080", "abc"}

\* Python truthiness of os.getenv(name): None and "" are falsy
Truthy(v) == v \notin {"<unset>", ""}

\* int(os.getenv('FLASK_PORT', 3000)) raises ValueError on a non-numeric string
PortParses(v) == v \in {"<unset>", "8080"}

\* variant: only PRINTER_IP is tested
MissingRequired_IpOnly(e) == ~Truthy(e["PRINTER_IP"])

\* not PRINTER_IP or not PRINTER_ACCESS_CODE or not PRINTER_SERIAL
MissingRequired(e) == \E v \in RequiredVars : ~Truthy(e[v])

-----------------------------------------------------------------------------
(* Exceptions and events *)

\* what a call into the SDK can do: return, or raise an error of the library
\* (a subclass of Exception)
SdkOutcomes == {"ok", "Exception"}

\* how the blocking app.run(...) ends: it returns (werkzeug swallows Ctrl-C),
\* raises an error (OSError: port in use), or raises SystemExit (reloader)
ListenerOutcomes == {"return", "Exception", "BaseException"}

\* variant: the handler catches nothing (no try/except around the SDK calls)
CatchesException_Nothing(kind) == FALSE

\* `except Exception as e` catches the class Exception and its subclasses only
CatchesException(kind) == kind = "Exception"

NoHandle == 0

Log(lvl, msg) == [k |-> "log", a |-> lvl, b |-> msg, h |-> NoHandle]
Sdk(op, res, h) == [k |-> "sdk", a |-> op, b |-> res, h |-> h]
Sys(what) == [k |-> "sys", a |-> what, b |-> "", h |-> NoHandle]

IsSdk(e) == e.k = "sdk"
IsSdkOp(e, op) == e.k = "sdk" /\ e.a = op
IsErrorLog(e) == e.k = "log" /\ e.a = "error"

Indices(s) == 1..Len(s)
SdkCalls(t) == {i \in Indices(t) : IsSdk(t[i])}
SdkOpCalls(t, op) == {i \in Indices(t) : IsSdkOp(t[i], op)}
ErrorLogs(t) == {i \in Indices(t) : IsErrorLog(t[i])}

-----------------------------------------------------------------------------
(* class BambuPGCode *)

\* the id bl.Printer(...) gives the handle it returns: handles are numbered in
\* the order of their construction
NewHandle(t) == Cardinality({i \in SdkOpCalls(t, "Printer") : t[i].b = "ok"}) + 1

\* variant: a handshake that raised does not end the block; the telemetry is
\* started all the same and decides the result
ConnectBody_GoesOn(p, h, oC, oH, oT) ==
    LET e1 == <<Log("info", "Connecting to printer"), Sdk("Printer", oC, h)>>
        e2 == e1 \o <<Sdk("connect", oH, h)>>
        e3 == e2 \o <<Log("info", "Starting MQTT"), Sdk("mqtt_start", oT, h)>>
        e4 == e3 \o <<Sys("sleep(3)"), Log("info", "Successfully connected")>>
    IN  IF oC # "ok" THEN [printer |-> p, ev |-> e1, exc |-> oC]
        ELSE IF oT # "ok" THEN [printer |-> h, ev |-> e3, exc |-> oT]
        ELSE [printer |-> h, ev |-> e4, exc |-> "none"]

\* The try block of connect_printer, lines 64-77.  oC, oH, oT are what
\* bl.Printer(...), printer.connect() and printer.mqtt_start() do.  The
\* assignment to self.printer happens only if the constructor returned; a
\* raise skips the rest of the block.
ConnectBody(p, h, oC, oH, oT) ==
    LET e1 == <<Log("info", "Connecting to printer"), Sdk("Printer", oC, h)>>
        e2 == e1 \o <<Sdk("connect", oH, h)>>
        e3 == e2 \o <<Log("info", "Starting MQTT"), Sdk("mqtt_start", oT, h)>>
        e4 == e3 \o <<Sys("sleep(3)"), Log("info", "Successfully connected")>>
    IN  IF oC # "ok" THEN [printer |-> p, ev |-> e1, exc |-> oC]
        ELSE IF oH # "ok" THEN [printer |-> h, ev |-> e2, exc |-> oH]
        ELSE IF oT # "ok" THEN [printer |-> h, ev |-> e3, exc |-> oT]
        ELSE [printer |-> h, ev |-> e4, exc |-> "none"]

\* connect_printer: True after the whole block ran, False after `except
\* Exception` logged the failure; any other exception class propagates
ConnectPrinter(p, h, oC, oH, oT) ==
    LET b == ConnectBody(p, h, oC, oH, oT)
    IN  IF b.exc = "none"
            THEN [printer |-> b.printer, ev |-> b.ev, ret |-> "True"]
        ELSE IF CatchesException(b.exc)
            THEN [printer |-> b.printer,
                  ev |-> b.ev \o <<Log("error", "Failed to connect to printer")>>,
                  ret |-> "False"]
        ELSE [printer |-> b.printer, ev |-> b.ev, ret |-> b.exc]

\* variant: the close is attempted whatever mqtt_stop did (one try per call)
DisconnectBody_AlwaysCloses(p, o1, o2) ==
    LET e2 == <<Sdk("mqtt_stop", o1, p), Sdk("disconnect", o2, p)>>
        e3 == e2 \o <<Log("info", "Disconnected from printer")>>
    IN  IF o1 # "ok" THEN [ev |-> e2, exc |-> o1]
        ELSE IF o2 # "ok" THEN [ev |-> e2, exc |-> o2]
        ELSE [ev |-> e3, exc |-> "none"]

\* variant: the handle is closed before the telemetry is stopped
DisconnectBody_CloseFirst(p, o1, o2) ==
    LET e1 == <<Sdk("disconnect", o2, p)>>
        e2 == e1 \o <<Sdk("mqtt_stop", o1, p)>>
        e3 == e2 \o <<Log("info", "Disconnected from printer")>>
    IN  IF o2 # "ok" THEN [ev |-> e1, exc |-> o2]
        ELSE IF o1 # "ok" THEN [ev |-> e2, exc |-> o1]
        ELSE [ev |-> e3, exc |-> "none"]

\* The try block of disconnect_printer, lines 86-89.  o1, o2 are what
\* printer.mqtt_stop() and printer.disconnect() do.
DisconnectBody(p, o1, o2) ==
    LET e1 == <<Sdk("mqtt_stop", o1, p)>>
        e2 == e1 \o <<Sdk("disconnect", o2, p)>>
        e3 == e2 \o <<Log("info", "Disconnected from printer")>>
    IN  IF o1 # "ok" THEN [ev |-> e1, exc |-> o1]
        ELSE IF o2 # "ok" THEN [ev |-> e2, exc |-> o2]
        ELSE [ev |-> e3, exc |-> "none"]

\* variant: the SDK calls are made outside any try block
DisconnectPrinter_NoTry(p, o1, o2) ==
    IF p = NoHandle THEN [ev |-> <<>>, ret |-> "None"]
    ELSE LET b == DisconnectBody(p, o1, o2)
         IN  [ev |-> b.ev, ret |-> IF b.exc = "none" THEN "None" ELSE b.exc]

\* disconnect_printer: acts only `if self.printer`; returns None, also after
\* `except Exception` logged the failure.  self.printer is not assigned.
DisconnectPrinter(p, o1, o2) ==
    IF p = NoHandle THEN [ev |-> <<>>, ret |-> "None"]
    ELSE LET b == DisconnectBody(p, o1, o2)
         IN  IF b.exc = "none" THEN [ev |-> b.ev, ret |-> "None"]
             ELSE IF CatchesException(b.exc)
                 THEN [ev |-> b.ev \o <<Log("error", "Error disconnecting from printer")>>,
                       ret |-> "None"]
             ELSE [ev |-> b.ev, ret |-> b.exc]

Call(op, res) == [op |-> op, res |-> res]

-----------------------------------------------------------------------------
(* The Flask application: routes and the file-serving primitive *)

\* A request path is the sequence of its segments: / is <<>>, /static/a.js is
\* <<"static", "a.js">>.
Segments == {"..", "static", "a.js", "index.html"}

RECURSIVE PathsOfLen(_)
PathsOfLen(n) ==
    IF n = 0 THEN {<<>>}
    ELSE {Append(q, s) : q \in PathsOfLen(n - 1), s \in Segments}

Paths == UNION {PathsOfLen(n) : n \in 0..MaxDepth}

\* what the directories may hold
ClientCandidates == {<<"index.html">>, <<"a.js">>, <<"static", "a.js">>}
FlaskCandidates == {<<"a.js">>}

\* the bytes of a regular file: every file has its own content
FileBytes(dir, file) == <<"bytes of", dir>> \o file

NotFoundBody == <<"File not found">>

\* posixpath.normpath on a relative path: a ".." removes the segment before
\* it, unless there is none or it is itself ".."
RECURSIVE Normpath(_, _)
Normpath(done, rest) ==
    IF rest = <<>> THEN done
    ELSE IF Head(rest) = ".." /\ done # <<>> /\ done[Len(done)] # ".."
        THEN Normpath(SubSeq(done, 1, Len(done) - 1), Tail(rest))
    ELSE Normpath(Append(done, Head(rest)), Tail(rest))

\* werkzeug.security.safe_join(directory, filename): None ("escapes") when the
\* normalised name is ".." or starts with "../"
SafeJoin(filename) ==
    LET n == Normpath(<<>>, filename)
    IN  IF n # <<>> /\ Head(n) = ".." THEN [ok |-> FALSE, file |-> <<>>]
        ELSE [ok |-> TRUE, file |-> n]

\* flask.send_from_directory(directory, filename): raises werkzeug's NotFound
\* when safe_join refuses the name or the result is not a regular file, else
\* sends the file's bytes with status 200
SendFromDirectory(dir, files, filename) ==
    LET j == SafeJoin(filename)
    IN  IF j.ok /\ j.file \in files
            THEN [exc |-> "none", status |-> 200, body |-> FileBytes(dir, j.file)]
        ELSE [exc |-> "NotFound", status |-> 0, body |-> <<>>]

\* @app.route('/') serve_index
ServeIndex(cf) == SendFromDirectory("CLIENT_DIR", cf, <<"index.html">>)

\* @app.route('/<path:filename>') serve_static_files: FileNotFoundError is
\* turned into the 404 answer, any other exception passes through
ServeStaticFiles(cf, filename) ==
    LET r == SendFromDirectory("CLIENT_DIR", cf, filename)
    IN  IF r.exc = "FileNotFoundError"
            THEN [exc |-> "none", status |-> 404, body |-> NotFoundBody]
        ELSE r

\* the view Flask(__name__) registers by itself at /static/<path:filename>:
\* send_static_file serves from <root_path>/static
SendStaticFile(ff, filename) == SendFromDirectory("server/static", ff, filename)

\* variant: no handler is registered and werkzeug's own 404 page is sent
NotFoundHandler_Default == [status |-> 404, body |-> <<"404 Not Found (werkzeug)">>]

\* @app.errorhandler(404) not_found
NotFoundHandler == [status |-> 404, body |-> NotFoundBody]

\* The URL map of app: the rules /, /<path:filename> and Flask's own
\* /static/<path:filename>; a rule with a literal segment is matched before
\* the bare path converter.  The path converter takes any non-empty path.
MatchRule(path) ==
    IF path = <<>> THEN "serve_index"
    ELSE IF Len(path) >= 2 /\ Head(path) = "static" THEN "static"
    ELSE "serve_static_files"

\* Flask's dispatch of one GET: match the rule, call the view, and give a
\* NotFound raised by either to the registered 404 handler
Dispatch(cf, ff, path) ==
    LET rule == MatchRule(path)
        r == IF rule = "serve_index" THEN ServeIndex(cf)
             ELSE IF rule = "static" THEN SendStaticFile(ff, Tail(path))
             ELSE IF rule = "serve_static_files" THEN ServeStaticFiles(cf, path)
             ELSE [exc |-> "NotFound", status |-> 0, body |-> <<>>]
    IN  IF r.exc = "NotFound" THEN NotFoundHandler
        ELSE [status |-> r.status, body |-> r.body]

NoRequest == <<"<none>">>
NoResponse == [status |-> 0, body |-> <<>>]

-----------------------------------------------------------------------------
(* main() *)

Init ==
    /\ pc = "start"
    /\ env \in [EnvVars -> EnvValues]
    /\ printer = NoHandle
    /\ trace = <<>>
    /\ history = <<>>
    /\ listener = "never"
    /\ pending = "none"
    /\ clientFiles \in SUBSET ClientCandidates
    /\ flaskFiles \in SUBSET FlaskCandidates
    /\ request = NoRequest
    /\ response = NoResponse

\* line 97: int(os.getenv('FLASK_PORT', 3000)) raises ValueError, which leaves
\* main() before anything is logged
MainBadPort ==
    /\ pc = "start"
    /\ ~PortParses(env["FLASK_PORT"])
    /\ pc' = "raised"
    /\ UNCHANGED <<env, printer, trace, history, listener, pending,
                   clientFiles, flaskFiles, request, response>>

\* lines 101-107: a required variable is unset or empty
MainMissingEnv ==
    /\ pc = "start"
    /\ PortParses(env["FLASK_PORT"])
    /\ MissingRequired(env)
    /\ trace' = Append(trace, Log("error", "Missing required environment variables"))
    /\ pc' = "returned"
    /\ UNCHANGED <<env, printer, history, listener, pending,
                   clientFiles, flaskFiles, request, response>>

\* variant: the session is built but connect_printer() is not called before
\* the listener
MainConstruct_SkipConnect ==
    /\ pc = "start"
    /\ PortParses(env["FLASK_PORT"])
    /\ ~MissingRequired(env)
    /\ trace' = trace \o <<Log("info", "Starting Flask server"),
                            Log("info", "Serving static files from"),
                            Log("info", "Debug mode")>>
    /\ printer' = NoHandle
    /\ pc' = "connected"
    /\ UNCHANGED <<env, history, listener, pending,
                   clientFiles, flaskFiles, request, response>>

\* lines 109-113: the three start-up records and BambuPGCode(...), whose
\* __init__ sets self.printer = None and registers the routes
MainConstruct ==
    /\ pc = "start"
    /\ PortParses(env["FLASK_PORT"])
    /\ ~MissingRequired(env)
    /\ trace' = trace \o <<Log("info", "Starting Flask server"),
                            Log("info", "Serving static files from"),
                            Log("info", "Debug mode")>>
    /\ printer' = NoHandle
    /\ pc' = "constructed"
    /\ UNCHANGED <<env, history, listener, pending,
                   clientFiles, flaskFiles, request, response>>

\* variant: the value of connect_printer() is ignored
AfterConnect_Ignored(ret) == IF ret \in {"True", "False"} THEN "connected" ELSE "raised"

\* variant: a failed connect is tried again
AfterConnect_Retry(ret) ==
    IF ret = "True" THEN "connected"
    ELSE IF ret = "False" THEN "constructed"
    ELSE "raised"

\* where main() goes with the value of connect_printer(): on to app.run, or
\* `return` at line 116; an exception out of connect_printer leaves main()
AfterConnect(ret) ==
    IF ret = "True" THEN "connected"
    ELSE IF ret = "False" THEN "returned"
    ELSE "raised"

\* lines 114-116: `if not bambuClient.connect_printer()` logs and returns
MainConnect(oC, oH, oT) ==
    /\ pc = "constructed"
    /\ LET r == ConnectPrinter(printer, NewHandle(trace), oC, oH, oT)
       IN  /\ printer' = r.printer
           /\ history' = Append(history, Call("connect_printer", r.ret))
           /\ trace' = IF r.ret = "False"
                           THEN trace \o r.ev \o <<Log("error", "Failed to connect to printer, exiting")>>
                           ELSE trace \o r.ev
           /\ pc' = AfterConnect(r.ret)
    /\ UNCHANGED <<env, listener, pending, clientFiles, flaskFiles, request, response>>

\* lines 118-123: app.run(...) starts listening and blocks
MainAppRun ==
    /\ pc = "connected"
    /\ listener' = "running"
    /\ trace' = Append(trace, Sys("app.run"))
    /\ pc' = "serving"
    /\ UNCHANGED <<env, printer, history, pending,
                   clientFiles, flaskFiles, request, response>>

\* variant: the view queries the printer while answering
HandleRequest_UsesPrinter(path) ==
    /\ pc = "serving"
    /\ request' = path
    /\ response' = Dispatch(clientFiles, flaskFiles, path)
    /\ trace' = Append(trace, Sdk("get_state", "ok", printer))
    /\ UNCHANGED <<pc, env, printer, history, listener, pending,
                   clientFiles, flaskFiles>>

\* one GET answered by the running listener
HandleRequest(path) ==
    /\ pc = "serving"
    /\ request' = path
    /\ response' = Dispatch(clientFiles, flaskFiles, path)
    /\ UNCHANGED <<pc, env, printer, trace, history, listener, pending,
                   clientFiles, flaskFiles>>

\* variant: the clean-up follows app.run without try/finally, so an exception
\* out of app.run skips it
AfterListener_NoFinally(how) == IF how = "return" THEN "finally" ELSE "raised"

\* try: app.run(...) finally: -- however app.run ends, the finally clause runs
AfterListener(how) == "finally"

\* app.run(...) ends: control goes to the finally clause
ListenerExit(how) ==
    /\ pc = "serving"
    /\ listener' = "stopped"
    /\ pending' = how
    /\ trace' = Append(trace, Sys("app.run ended"))
    /\ pc' = AfterListener(how)
    /\ UNCHANGED <<env, printer, history, clientFiles, flaskFiles, request, response>>

\* lines 124-127: the finally clause; after it main() returns, or the
\* exception that ended app.run goes on
MainFinally(o1, o2) ==
    /\ pc = "finally"
    /\ LET r == DisconnectPrinter(printer, o1, o2)
           e == <<Log("info", "Shutting down")>> \o r.ev
       IN  /\ history' = Append(history, Call("disconnect_printer", r.ret))
           /\ trace' = IF r.ret = "None"
                           THEN trace \o e \o <<Log("info", "BambuLab monitor stopped")>>
                           ELSE trace \o e
           /\ pc' = IF r.ret = "None" /\ pending = "return" THEN "returned"
                    ELSE "raised"
    /\ UNCHANGED <<env, printer, listener, pending,
                   clientFiles, flaskFiles, request, response>>

Next ==
    \/ MainBadPort
    \/ MainMissingEnv
    \/ MainConstruct
    \/ \E oC, oH, oT \in SdkOutcomes : MainConnect(oC, oH, oT)
    \/ MainAppRun
    \/ \E path \in Paths : HandleRequest(path)
    \/ \E how \in ListenerOutcomes : ListenerExit(how)
    \/ \E o1, o2 \in SdkOutcomes : MainFinally(o1, o2)

Spec == Init /\ [][Next]_vars

-----------------------------------------------------------------------------
(* A caller of one BambuPGCode object *)

InitSession ==
    /\ pc = "session"
    /\ env = [v \in EnvVars |-> "8080"]
    /\ printer = NoHandle
    /\ trace = <<>>
    /\ history = <<>>
    /\ listener = "never"
    /\ pending = "none"
    /\ clientFiles = {}
    /\ flaskFiles = {}
    /\ request = NoRequest
    /\ response = NoResponse

SessionConnect(oC, oH, oT) ==
    /\ pc = "session"
    /\ Len(history) < MaxCalls
    /\ LET r == ConnectPrinter(printer, NewHandle(trace), oC, oH, oT)
       IN  /\ printer' = r.printer
           /\ history' = Append(history, Call("connect_printer", r.ret))
           /\ trace' = trace \o r.ev
    /\ UNCHANGED <<pc, env, listener, pending, clientFiles, flaskFiles, request, response>>

\* variant: disconnect_printer() resets self.printer to None when it is done
SessionDisconnect_ClearsHandle(o1, o2) ==
    /\ pc = "session"
    /\ Len(history) < MaxCalls
    /\ LET r == DisconnectPrinter(printer, o1, o2)
       IN  /\ history' = Append(history, Call("disconnect_printer", r.ret))
           /\ trace' = trace \o r.ev
    /\ printer' = NoHandle
    /\ UNCHANGED <<pc, env, listener, pending,
                   clientFiles, flaskFiles, request, response>>

SessionDisconnect(o1, o2) ==
    /\ pc = "session"
    /\ Len(history) < MaxCalls
    /\ LET r == DisconnectPrinter(printer, o1, o2)
       IN  /\ history' = Append(history, Call("disconnect_printer", r.ret))
           /\ trace' = trace \o r.ev
    /\ UNCHANGED <<pc, env, printer, listener, pending,
                   clientFiles, flaskFiles, request, response>>

NextSession ==
    \/ \E oC, oH, oT \in SdkOutcomes : SessionConnect(oC, oH, oT)
    \/ \E o1, o2 \in SdkOutcomes : SessionDisconnect(o1, o2)

SpecSession == InitSession /\ [][NextSession]_vars

-----------------------------------------------------------------------------
(* Properties *)

Finished == pc \in {"returned", "raised"}
Called(op) == {i \in Indices(history) : history[i].op = op}
Returned(op, res) == \E i \in Called(op) : history[i].res = res
Events(e) == {i \in Indices(trace) : trace[i] = e}
ListenerStarted == listener # "never" \/ Events(Sys("app.run")) # {}
SomeRequiredAbsent == \E v \in RequiredVars : env[v] = "<unset>"

\* C1: in a run of main(), once connect_printer() has returned the failure
\* signal the HTTP listener is not started: it was not started before, and
\* main() has returned.
C1_NoListenerAfterConnectFailure ==
    Returned("connect_printer", "False") =>
        /\ ~ListenerStarted
        /\ pc = "returned"

\* C1 witness: connect_printer() failed at the telemetry start, after the
\* handle was built and the handshake done, and main() is over.
C1_Witness ==
    /\ Returned("connect_printer", "False")
    /\ \E i \in SdkOpCalls(trace, "mqtt_start") : trace[i].b = "Exception"
    /\ pc = "returned"

\* C2 as stated: in a finished run of main() with a required device setting
\* absent, an error was logged, no SDK call was made and the listener was
\* never started.
C2_Original ==
    (SomeRequiredAbsent /\ Finished) =>
        /\ ErrorLogs(trace) # {}
        /\ SdkCalls(trace) = {}
        /\ ~ListenerStarted

\* C2 amended: with a required device setting absent, no SDK call is ever
\* made, the session is never connected or disconnected and the listener is
\* never started; the run ends either by returning after the error record
\* "Missing required environment variables", or, when FLASK_PORT does not
\* parse as an integer, by the ValueError of line 97 with nothing logged.
C2_MissingSettingAborts ==
    SomeRequiredAbsent =>
        /\ SdkCalls(trace) = {}
        /\ history = <<>>
        /\ ~ListenerStarted
        /\ pc \in {"start", "returned", "raised"}
        /\ pc = "returned" =>
              trace = <<Log("error", "Missing required environment variables")>>
        /\ pc = "raised" => (~PortParses(env["FLASK_PORT"]) /\ trace = <<>>)

\* C2 witness: only PRINTER_SERIAL is absent and main() has returned after
\* logging the error.
C2_Witness ==
    /\ env["PRINTER_SERIAL"] = "<unset>"
    /\ Truthy(env["PRINTER_IP"]) /\ Truthy(env["PRINTER_ACCESS_CODE"])
    /\ pc = "returned"
    /\ ErrorLogs(trace) # {}

\* C3: every call of disconnect_printer() returns normally (None), whatever
\* calls came before it and whatever mqtt_stop and disconnect did.
C3_DisconnectNeverRaises ==
    \A i \in Called("disconnect_printer") : history[i].res = "None"

\* C3 witness: after a successful connect, a disconnect_printer() call in
\* which printer.disconnect() raised has returned.
C3_Witness ==
    /\ Len(history) = 2
    /\ history[1] = Call("connect_printer", "True")
    /\ history[2].op = "disconnect_printer"
    /\ \E i \in SdkOpCalls(trace, "disconnect") : trace[i].b = "Exception"

\* C4 as stated: after connect_printer() returned the failure signal the
\* session holds no handle, and a disconnect_printer() that follows makes no
\* SDK call.
C4_Original ==
    /\ (Len(history) = 1 /\ history[1] = Call("connect_printer", "False"))
          => printer = NoHandle
    /\ (Len(history) = 2 /\ history[1] = Call("connect_printer", "False")
          /\ history[2].op = "disconnect_printer")
          => (SdkOpCalls(trace, "mqtt_stop") = {} /\ SdkOpCalls(trace, "disconnect") = {})

\* C5: in a finished run of main() in which the listener was started,
\* disconnect_printer() was called exactly once, on the session's handle and
\* after the listener ended; while the listener runs it has not been called.
C5_DisconnectAfterListener ==
    /\ (Finished /\ ListenerStarted) =>
          /\ Cardinality(Called("disconnect_printer")) = 1
          /\ \E i \in Events(Sys("app.run ended")) :
                \E j \in SdkOpCalls(trace, "mqtt_stop") : i < j /\ trace[j].h = printer
    /\ listener = "running" =>
          (Called("disconnect_printer") = {} /\ SdkOpCalls(trace, "mqtt_stop") = {})

\* C5 witness: app.run ended by an exception that is not an Exception
\* (SystemExit), the clean-up ran and main() is over.
C5_Witness ==
    /\ pc = "raised"
    /\ pending = "BaseException"
    /\ Called("disconnect_printer") # {}

\* C6: when disconnect_printer() is called twice in succession, the second
\* call returns normally.
C6_DisconnectIdempotent ==
    \A i \in Called("disconnect_printer") :
        (i > 1 /\ history[i - 1].op = "disconnect_printer") => history[i].res = "None"

\* C6 witness: on a connected session the first disconnect_printer() went
\* through, and in the second one mqtt_stop, called again on the same handle,
\* raised.
C6_Witness ==
    /\ Len(history) = 3
    /\ history[1] = Call("connect_printer", "True")
    /\ history[2].op = "disconnect_printer"
    /\ history[3].op = "disconnect_printer"
    /\ \E i, j \in SdkOpCalls(trace, "mqtt_stop") :
          i < j /\ trace[i].b = "ok" /\ trace[j].b = "Exception"

\* C7: in a run of main() at most one handle is constructed, at most one
\* handshake is made and connect_printer() is called at most once; after a
\* failed connect main() has returned.
C7_NoRetries ==
    /\ Cardinality(SdkOpCalls(trace, "Printer")) <= 1
    /\ Cardinality(SdkOpCalls(trace, "connect")) <= 1
    /\ Cardinality(Called("connect_printer")) <= 1
    /\ Returned("connect_printer", "False") => pc = "returned"

\* C7 witness: the handshake raised, connect_printer() returned False and
\* main() is over with one handle built.
C7_Witness ==
    /\ pc = "returned"
    /\ \E i \in SdkOpCalls(trace, "connect") : trace[i].b = "Exception"
    /\ Cardinality(SdkOpCalls(trace, "Printer")) = 1

\* the file under the static root (CLIENT_DIR) a request path stands for:
\* the default document for /, else the normalised path
Resolved(path) == IF path = <<>> THEN <<"index.html">> ELSE Normpath(<<>>, path)
Escapes(path) == Resolved(path) # <<>> /\ Head(Resolved(path)) = ".."
ResolvesInRoot(path) == ~Escapes(path) /\ Resolved(path) \in clientFiles

\* C8 as stated: a request whose path does not resolve to a file under the
\* static root is answered 404 with the body "File not found".
C8_Original ==
    (request # NoRequest /\ ~ResolvesInRoot(request)) =>
        response = [status |-> 404, body |-> NotFoundBody]

\* C9 as stated: a request whose path resolves to an existing file under the
\* static root is answered 200 with that file's bytes.
C9_Original ==
    (request # NoRequest /\ ResolvesInRoot(request)) =>
        response = [status |-> 200, body |-> FileBytes("CLIENT_DIR", Resolved(request))]

\* C10: a request to / is answered 200 with the bytes of index.html of the
\* static root when that file exists, and 404 "File not found" when not.
C10_RootDocument ==
    request = <<>> =>
        response = IF <<"index.html">> \in clientFiles
                       THEN [status |-> 200, body |-> FileBytes("CLIENT_DIR", <<"index.html">>)]
                       ELSE [status |-> 404, body |-> NotFoundBody]

\* C10 witness: / was requested with no index.html in the static root.
C10_Witness ==
    /\ request = <<>>
    /\ <<"index.html">> \notin clientFiles
    /\ response.status = 404


\* C11 as stated: a request answered 200 carries the bytes of a file of the
\* static root (CLIENT_DIR); no request path gets a file from outside it.
C11_Original ==
    (request # NoRequest /\ response.status = 200) =>
        \E f \in clientFiles : response.body = FileBytes("CLIENT_DIR", f)

\* C12 as stated: when main() has returned after a device handle was
\* constructed, disconnect_printer() has been called.
C12_Original ==
    (pc = "returned" /\ \E i \in SdkOpCalls(trace, "Printer") : trace[i].b = "ok") =>
        Called("disconnect_printer") # {}


ConnectOps == {"Printer", "connect", "mqtt_start"}
ReleaseOps == {"mqtt_stop", "disconnect"}
OpCalls(ops) == {i \in SdkCalls(trace) : trace[i].a \in ops}

\* C13: in a run of main() the listener starts only after connect_printer()
\* has returned success, with every connect-side SDK call before it; the
\* listener ends after it started; every stop-telemetry and close call comes
\* after the listener has ended; and nothing happens after main() is left
\* except through these steps (the listener runs only in the serving step).
C13_EventOrder ==
    /\ ListenerStarted => Returned("connect_printer", "True")
    /\ \A i \in Events(Sys("app.run")) :
          /\ \E j \in Events(Log("info", "Successfully connected")) : j < i
          /\ \A j \in OpCalls(ConnectOps) : j < i
    /\ \A i \in Events(Sys("app.run ended")) :
          \E j \in Events(Sys("app.run")) : j < i
    /\ \A j \in OpCalls(ReleaseOps) :
          \E i \in Events(Sys("app.run ended")) : i < j
    /\ listener = "running" <=> pc = "serving"
    /\ Called("disconnect_printer") # {} => listener = "stopped"

\* C13 witness: a whole run: connect, listener, normal end of the listener,
\* both release calls, return.
C13_Witness ==
    /\ pc = "returned"
    /\ listener = "stopped"
    /\ pending = "return"
    /\ \E i \in SdkOpCalls(trace, "disconnect") : trace[i].b = "ok"


At(i) == IF i \in Indices(trace) THEN trace[i] ELSE Sys("<nothing>")
Raised(e) == IsSdk(e) /\ e.b # "ok"
Succeeded(e, op) == IsSdkOp(e, op) /\ e.b = "ok"

\* C14: connect_printer() runs construct, handshake, telemetry start, delay in
\* that order: a handshake directly follows a constructor that returned, a
\* telemetry start follows a handshake that returned, on the same handle, the
\* delay follows a telemetry start that returned and the success record
\* follows the delay; a connect-side call that raised is followed by the
\* failure record and by no further step; and connect_printer() returned True
\* exactly as often as the success record was written.
C14_ConnectStepOrder ==
    /\ \A i \in SdkOpCalls(trace, "connect") :
          Succeeded(At(i - 1), "Printer") /\ At(i - 1).h = trace[i].h
    /\ \A i \in SdkOpCalls(trace, "mqtt_start") :
          /\ At(i - 1) = Log("info", "Starting MQTT")
          /\ Succeeded(At(i - 2), "connect") /\ At(i - 2).h = trace[i].h
    /\ \A i \in Events(Sys("sleep(3)")) : Succeeded(At(i - 1), "mqtt_start")
    /\ \A i \in Events(Log("info", "Successfully connected")) : At(i - 1) = Sys("sleep(3)")
    /\ \A i \in OpCalls(ConnectOps) :
          Raised(trace[i]) => At(i + 1) = Log("error", "Failed to connect to printer")
    /\ Cardinality({i \in Called("connect_printer") : history[i].res = "True"})
          = Cardinality(Events(Log("info", "Successfully connected")))
    /\ Cardinality({i \in Called("connect_printer") : history[i].res = "False"})
          = Cardinality({i \in OpCalls(ConnectOps) : Raised(trace[i])})

\* C14 witness: a first connect_printer() failed at the handshake and a
\* second one went through all four steps.
C14_Witness ==
    /\ history = <<Call("connect_printer", "False"), Call("connect_printer", "True")>>
    /\ \E i \in SdkOpCalls(trace, "connect") : trace[i].b = "Exception"
    /\ Events(Sys("sleep(3)")) # {}


\* a step in which disconnect_printer() is called
DisconnectStep ==
    /\ Len(history') = Len(history) + 1
    /\ history'[Len(history')].op = "disconnect_printer"
\* the events a step adds to the trace
Added == SubSeq(trace', Len(trace) + 1, Len(trace'))

\* C15: a close (printer.disconnect) directly follows a stop-telemetry
\* (printer.mqtt_stop) that returned, on the same handle, and a stop-telemetry
\* that returned is directly followed by the close; a disconnect_printer()
\* call on a session with a handle starts with stop-telemetry on that handle,
\* and one on a session without a handle makes no SDK call at all.
C15_StopThenClose ==
    /\ [](/\ \A i \in SdkOpCalls(trace, "disconnect") :
                Succeeded(At(i - 1), "mqtt_stop") /\ At(i - 1).h = trace[i].h
          /\ \A i \in SdkOpCalls(trace, "mqtt_stop") :
                Succeeded(trace[i], "mqtt_stop") =>
                    (IsSdkOp(At(i + 1), "disconnect") /\ At(i + 1).h = trace[i].h))
    /\ [][DisconnectStep =>
            IF printer = NoHandle
                THEN trace' = trace
                ELSE /\ Added # <<>>
                     /\ IsSdkOp(Head(Added), "mqtt_stop")
                     /\ Head(Added).h = printer]_vars

\* C15 witness: on a connected session disconnect_printer() stopped the
\* telemetry and closed the handle, both calls returning.
C15_Witness ==
    /\ history = <<Call("connect_printer", "True"), Call("disconnect_printer", "None")>>
    /\ \E i \in SdkOpCalls(trace, "disconnect") : trace[i].b = "ok" /\ trace[i].h = printer


\* C16: a step that handles a request (the request or its response changes)
\* leaves the session as it was: the handle, the SDK calls and log records
\* made so far, the calls of connect_printer/disconnect_printer, the position
\* of main() and the listener are unchanged.
C16_RequestsLeaveSession ==
    [][(request' # request \/ response' # response) =>
          /\ printer' = printer
          /\ trace' = trace
          /\ history' = history
          /\ pc' = pc /\ listener' = listener /\ pending' = pending]_vars

\* C16 witness: with the session connected, a request for a sub-path was
\* answered 200 from the static root.
C16_Witness ==
    /\ request = <<"a.js">>
    /\ response.status = 200
    /\ printer # NoHandle
    /\ pc = "serving"


\* C17: a stop-telemetry call (printer.mqtt_stop) that raised is directly
\* followed by the error record of disconnect_printer(), so the close
\* (printer.disconnect) is not called in that call; the session keeps its
\* handle, and the call has returned normally.
C17_StopFailureSkipsClose ==
    \A i \in SdkOpCalls(trace, "mqtt_stop") :
        Raised(trace[i]) =>
            /\ At(i + 1) = Log("error", "Error disconnecting from printer")
            /\ printer # NoHandle
            /\ \E c \in Called("disconnect_printer") : history[c].res = "None"

\* C17 witness: on a connected session mqtt_stop raised in the only
\* disconnect_printer() call, which returned; the handle was never closed.
C17_Witness ==
    /\ history = <<Call("connect_printer", "True"), Call("disconnect_printer", "None")>>
    /\ \E i \in SdkOpCalls(trace, "mqtt_stop") : trace[i].b = "Exception"
    /\ SdkOpCalls(trace, "disconnect") = {}
    /\ printer # NoHandle


\* C18: disconnect_printer() leaves self.printer as it is, and no step takes
\* a handle away from the session; so a disconnect_printer() call on a handle
\* that was already stopped before calls stop-telemetry on that handle again.
C18_HandleNeverCleared ==
    [][/\ DisconnectStep => printer' = printer
       /\ printer # NoHandle => printer' # NoHandle
       /\ (/\ DisconnectStep
           /\ \E i \in SdkOpCalls(trace, "mqtt_stop") : trace[i].h = printer)
          => (/\ Added # <<>>
              /\ IsSdkOp(Head(Added), "mqtt_stop")
              /\ Head(Added).h = printer)]_vars

\* C18 witness: after a connect, two disconnect_printer() calls that both
\* went through: stop-telemetry and close were called twice on the handle
\* the session still holds.
C18_Witness ==
    /\ Len(history) = 3
    /\ history[1] = Call("connect_printer", "True")
    /\ history[2].op = "disconnect_printer" /\ history[3].op = "disconnect_printer"
    /\ Cardinality({i \in SdkOpCalls(trace, "disconnect") :
                      trace[i].b = "ok" /\ trace[i].h = printer}) = 2

=============================================================================
